---- MODULE Spec2Model ----
(***************************************************************************)
(* A model of the perfume scraper (scrapper/gpt.py), the catalog builder   *)
(* (scrapper/build_catalog.py) and the record normaliser of the uploader   *)
(* (scrapper/upload_data.py).                                              *)
(*                                                                         *)
(* Python values are modelled as follows.                                   *)
(*   str          a TLA+ string; Len, \o and SubSeq act on its characters   *)
(*   None | v     the sequence <<>> for None, <<v>> for a value v           *)
(*   float        an integer number of ten-thousandths (round(x, 4))        *)
(*   list         a sequence                                               *)
(*   dict         a function whose DOMAIN is the set of keys                *)
(***************************************************************************)
EXTENDS Integers, Sequences, FiniteSets, TLC

VARIABLES
    urls,       \* gpt.py: the list the run iterates over (urls_nicho)
    site,       \* site[n]: the page that urls[n] serves
    pos,        \* the position in urls of the page being handled
    pc,         \* where gpt.py's run is: "page", "moved", "done", "raised", "exited"
    exc,        \* the exception that ended gpt.py's run, "" if none
    temp,       \* the directories under data/temp, by perfume_name_id
    dataset,    \* dataset/perfumes: <<brand_slug, perfume_name_id>> -> [meta, image]
    catalog,    \* <<>> before build_catalog ran, <<its outcome>> after
    docs,       \* <<>> before the uploader ran, <<its outcome>> after
    pctIn,      \* the argument handed to pct_to_float
    pctOut,     \* <<>> before the call, <<which module's, result>> after it
    facets,     \* <<>> before build_facets ran, <<its result>> after
    slugIn,     \* the argument handed to to_slug
    slugOut     \* the results of to_slug so far: of slugIn, then of that result

scrapeVars == <<urls, site, pos, pc, exc, temp, dataset>>

outVars == <<catalog, docs>>

pctVars == <<pctIn, pctOut>>

slugVars == <<slugIn, slugOut>>

vars == <<urls, site, pos, pc, exc, temp, dataset, catalog, docs, pctIn, pctOut,
          facets, slugIn, slugOut>>

(***************************************************************************)
(* Python's None and string primitives                                     *)
(***************************************************************************)
None == <<>>
Some(v) == <<v>>
IsNone(x) == x = <<>>
\* a variable not yet assigned by its program
Unset == <<>>
Val(x) == x[1]

Min(S) == CHOOSE m \in S : \A n \in S : m <= n

Char(s, i) == SubSeq(s, i, i)

\* characters str.strip(), float() and the regex class \s treat as blank
Whitespace == {" ", "\t", "\n"}

RECURSIVE lstrip(_)
lstrip(s) ==
    IF Len(s) > 0 /\ Char(s, 1) \in Whitespace
    THEN lstrip(SubSeq(s, 2, Len(s)))
    ELSE s

RECURSIVE rstrip(_)
rstrip(s) ==
    IF Len(s) > 0 /\ Char(s, Len(s)) \in Whitespace
    THEN rstrip(SubSeq(s, 1, Len(s) - 1))
    ELSE s

\* str.strip()
strip(s) == rstrip(lstrip(s))

\* str.find(sep) + 1: the position of the first occurrence of sep, 0 if none
find(s, sep) ==
    LET at == {i \in 1..(Len(s) - Len(sep) + 1) :
                   SubSeq(s, i, i + Len(sep) - 1) = sep}
    IN  IF at = {} THEN 0 ELSE Min(at)

\* str.split(sep): the pieces between the non-overlapping occurrences of
\* sep, found left to right
RECURSIVE split(_, _)
split(s, sep) ==
    LET i == find(s, sep)
    IN  IF i = 0
        THEN <<s>>
        ELSE <<SubSeq(s, 1, i - 1)>>
                 \o split(SubSeq(s, i + Len(sep), Len(s)), sep)

RECURSIVE join(_, _)
join(parts, sep) ==
    IF Len(parts) = 0 THEN ""
    ELSE IF Len(parts) = 1 THEN parts[1]
    ELSE parts[1] \o sep \o join(Tail(parts), sep)

\* str.replace(old, new)
replace(s, old, new) == join(split(s, old), new)

(***************************************************************************)
(* float(s) and round(x, 4)                                                *)
(***************************************************************************)
Digits == "0123456789"

IsDigit(c) == \E d \in 1..10 : Char(Digits, d) = c

DigitOf(c) == (CHOOSE d \in 1..10 : Char(Digits, d) = c) - 1

AllDigits(s) == \A i \in 1..Len(s) : IsDigit(Char(s, i))

RECURSIVE DigitsVal(_)
DigitsVal(s) ==
    IF Len(s) = 0 THEN 0
    ELSE 10 * DigitsVal(SubSeq(s, 1, Len(s) - 1)) + DigitOf(Char(s, Len(s)))

RECURSIVE Pow10(_)
Pow10(n) == IF n = 0 THEN 1 ELSE 10 * Pow10(n - 1)

\* the number of decimals round(.., 4) keeps
Decimals == 4

\* n / d rounded to the nearest integer, ties to even.  (round() decides a
\* tie on the binary value of the float; the inputs of the model have at
\* most Decimals fractional digits, where no rounding takes place.)
RoundDiv(n, d) ==
    LET q == n \div d
        r == n % d
    IN  IF 2 * r > d \/ (2 * r = d /\ q % 2 = 1) THEN q + 1 ELSE q

\* round(float(digits "." frac), 4) in ten-thousandths
Rounded(int, frac) ==
    LET k == Len(frac)
        n == DigitsVal(int) * Pow10(k) + DigitsVal(frac)
    IN  IF k <= Decimals THEN n * Pow10(Decimals - k)
        ELSE RoundDiv(n, Pow10(k - Decimals))

\* round(float(s), 4): <<value>>, or None where float(s) raises ValueError.
\* float() accepts surrounding blanks, one sign, and digits with at most one
\* point and at least one digit.  (Exponents, underscores, "inf" and "nan"
\* need characters the modelled inputs do not contain.)
float4(s) ==
    LET t    == strip(s)
        sgn  == IF Len(t) > 0 /\ Char(t, 1) \in {"+", "-"} THEN Char(t, 1) ELSE ""
        body == SubSeq(t, Len(sgn) + 1, Len(t))
        p    == find(body, ".")
        int  == IF p = 0 THEN body ELSE SubSeq(body, 1, p - 1)
        frac == IF p = 0 THEN "" ELSE SubSeq(body, p + 1, Len(body))
    IN  IF AllDigits(int) /\ AllDigits(frac) /\ Len(int) + Len(frac) > 0
        THEN Some((IF sgn = "-" THEN -1 ELSE 1) * Rounded(int, frac))
        ELSE None

\* pct_to_float without line 48, the removal of "%"
pct_to_float_keeps_percent(x) ==
    IF IsNone(x) THEN None
    ELSE float4(strip(Val(x)))

\* build_catalog.pct_to_float(x), x None or a string
pct_to_float(x) ==
    IF IsNone(x) THEN None
    ELSE float4(replace(strip(Val(x)), "%", ""))

\* upload_data.pct_to_float(x), x None or a string
pct_to_float_upload(x) ==
    IF IsNone(x) THEN None
    ELSE float4(replace(strip(Val(x)), "%", ""))

(***************************************************************************)
(* More of Python: str.lower(), negative indices, slices, dict             *)
(***************************************************************************)
UpperAlpha == "ABCDEFGHIJKLMNOPQRSTUVWXYZ"

LowerAlpha == "abcdefghijklmnopqrstuvwxyz"

LowerChar(c) ==
    IF \E i \in 1..Len(UpperAlpha) : Char(UpperAlpha, i) = c
    THEN Char(LowerAlpha, CHOOSE i \in 1..Len(UpperAlpha) : Char(UpperAlpha, i) = c)
    ELSE c

\* str.lower()
RECURSIVE lower(_)
lower(s) ==
    IF Len(s) = 0 THEN ""
    ELSE LowerChar(Char(s, 1)) \o lower(SubSeq(s, 2, Len(s)))

\* xs[-1]
Last(xs) == xs[Len(xs)]

\* xs[:n] for n >= 0
Take(xs, n) == SubSeq(xs, 1, IF n < Len(xs) THEN n ELSE Len(xs))

\* xs[a:b] for 0 <= a <= b (Python's 0-based half-open slice)
Slice(xs, a, b) == SubSeq(xs, a + 1, IF b < Len(xs) THEN b ELSE Len(xs))

\* xs[-n:] for n > 0
TakeLast(xs, n) == SubSeq(xs, (IF n < Len(xs) THEN Len(xs) - n ELSE 0) + 1, Len(xs))

\* xs[:-n] for n > 0
DropLast(xs, n) == SubSeq(xs, 1, Len(xs) - n)

\* list.count(x)
Count(xs, x) == Cardinality({i \in 1..Len(xs) : xs[i] = x})

\* {} and d[k] = v
EmptyDict == <<>>

Put(d, k, v) == [x \in DOMAIN d \cup {k} |-> IF x = k THEN v ELSE d[x]]

\* d.get(k) for a dict whose values are None or <<v>>
Get(d, k) == IF k \in DOMAIN d THEN d[k] ELSE None

(***************************************************************************)
(* to_slug (gpt.py and build_catalog.py hold the same four lines)          *)
(***************************************************************************)
SlugKept == "abcdefghijklmnopqrstuvwxyz0123456789-"

\* re.sub(r"[^a-z0-9\s-]", "", s)
RECURSIVE DropNonSlug(_)
DropNonSlug(s) ==
    IF Len(s) = 0 THEN ""
    ELSE LET c == Char(s, 1)
         IN  (IF c \in Whitespace \/ find(SlugKept, c) > 0 THEN c ELSE "")
                 \o DropNonSlug(SubSeq(s, 2, Len(s)))

\* re.sub(r"\s+", "-", s)
RECURSIVE BlanksToHyphen(_)
BlanksToHyphen(s) ==
    IF Len(s) = 0 THEN ""
    ELSE IF Char(s, 1) \in Whitespace
    THEN "-" \o BlanksToHyphen(lstrip(s))
    ELSE Char(s, 1) \o BlanksToHyphen(SubSeq(s, 2, Len(s)))

\* re.sub(r"-+", "-", s)
RECURSIVE SqueezeHyphens(_)
SqueezeHyphens(s) ==
    IF Len(s) = 0 THEN ""
    ELSE IF Len(s) > 1 /\ Char(s, 1) = "-" /\ Char(s, 2) = "-"
    THEN SqueezeHyphens(SubSeq(s, 2, Len(s)))
    ELSE Char(s, 1) \o SqueezeHyphens(SubSeq(s, 2, Len(s)))

\* to_slug with its last two substitutions in the other order
to_slug_squeeze_first(s) == BlanksToHyphen(SqueezeHyphens(DropNonSlug(lower(strip(s)))))

to_slug(s) == SqueezeHyphens(BlanksToHyphen(DropNonSlug(lower(strip(s)))))

\* (s or "") for an argument that may be None
OrEmpty(x) == IF IsNone(x) THEN "" ELSE Val(x)

(***************************************************************************)
(* parser_html (gpt.py)                                                    *)
(*                                                                         *)
(* A page is what the selectors of parser_html find in its markup:         *)
(*   div_base  whether the content container is there                       *)
(*   h1        None, or <<the title text>>                                  *)
(*   brand     None, or <<the brand span's text>>                           *)
(*   accords   None when the second accord grid is missing, or <<texts>>    *)
(*   rows      None when the rating block is missing, or <<the rows>>, a    *)
(*             row being [label, style]: label None without a label         *)
(*             element, style None without a bar element, <<"">> for a bar  *)
(*             with no style attribute                                      *)
(*   pyramid   None when the second pyramid block is missing, or <<the tag  *)
(*             names of its descendants in document order>>                 *)
(*   divs      the texts of the note divs, in document order                *)
(***************************************************************************)

\* lines 150-151: re.search(r"width\s*:\s*([^;]+)", style, re.I), then
\* group(1).strip().  After the colon the greedy \s* and [^;]+ share the run
\* of characters up to the next ";", which must not be empty; whichever way
\* they share it, the stripped group is the stripped run.
WidthAt(style, i) ==
    LET afterWord  == SubSeq(style, i + 5, Len(style))
        afterBlank == lstrip(afterWord)
        rest       == SubSeq(afterBlank, 2, Len(afterBlank))
        semi       == find(rest, ";")
        run        == IF semi = 0 THEN rest ELSE SubSeq(rest, 1, semi - 1)
    IN  IF /\ i + 4 <= Len(style)
           /\ lower(SubSeq(style, i, i + 4)) = "width"
           /\ Len(afterBlank) > 0
           /\ Char(afterBlank, 1) = ":"
           /\ Len(run) > 0
        THEN Some(strip(run))
        ELSE None

ExtractWidth(style) ==
    LET hits == {i \in 1..Len(style) : ~IsNone(WidthAt(style, i))}
    IN  IF hits = {} THEN None ELSE WidthAt(style, Min(hits))

\* lines 141-152: the loop over the rating rows
RECURSIVE IdealTimes(_)
IdealTimes(rows) ==
    IF Len(rows) = 0 THEN EmptyDict
    ELSE LET t == Last(rows)
         IN  Put(IdealTimes(DropLast(rows, 1)), Val(t.label), ExtractWidth(Val(t.style)))

\* lines 159-174: the three tier sizes
Indices(elements, tag) == {i \in 1..Len(elements) : elements[i] = tag}

RECURSIVE Sorted(_)
Sorted(S) == IF S = {} THEN <<>> ELSE <<Min(S)>> \o Sorted(S \ {Min(S)})

NotesNumbers(elements) ==
    LET indices_h4 == Sorted(Indices(elements, "h4"))
    IN  IF Len(indices_h4) >= 3
        THEN [top    |-> Count(Slice(elements, indices_h4[1] - 1, indices_h4[2] - 1), "span"),
              middle |-> Count(Slice(elements, indices_h4[2] - 1, indices_h4[3] - 1), "span"),
              base   |-> Count(Slice(elements, indices_h4[3] - 1, Len(elements)), "span")]
        ELSE [top    |-> Cardinality(Indices(elements, "a")),
              middle |-> 0,
              base   |-> 0]

\* lines 176-182
RECURSIVE TotalNotes(_)
TotalNotes(divs) ==
    IF Len(divs) = 0 THEN <<>>
    ELSE (IF divs[1] # "" THEN <<divs[1]>> ELSE <<>>) \o TotalNotes(Tail(divs))

\* lines 183-187
NotesFinal(n, total_notes) ==
    [top_notes    |-> Take(total_notes, n.top),
     middle_notes |-> IF n.middle # 0
                      THEN Slice(total_notes, n.top, n.top + n.middle)
                      ELSE <<>>,
     base_notes   |-> IF n.base # 0 THEN TakeLast(total_notes, n.base) ELSE <<>>]

\* line 197
ImgUrl(url) ==
    "https://fimgs.net/mdimg/perfume-thumbs/375x500."
        \o DropLast(Last(split(Last(split(url, "/")), "-")), 5)
        \o ".jpg"

\* the first exception parser_html raises on the page, "" if none
ParserError(page) ==
    IF ~page.div_base THEN "AttributeError"                       \* line 106
    ELSE IF IsNone(page.accords) THEN "IndexError"                 \* line 119
    ELSE IF IsNone(page.rows) THEN "IndexError"                    \* lines 127-137
    ELSE IF \E i \in 1..Len(Val(page.rows)) :
                IsNone(Val(page.rows)[i].label) \/ IsNone(Val(page.rows)[i].style)
         THEN "AttributeError"                                     \* lines 145, 149
    ELSE IF IsNone(page.pyramid) THEN "IndexError"                 \* line 159
    ELSE IF IsNone(page.h1) THEN "AttributeError"                  \* line 191
    ELSE IF IsNone(page.brand) THEN "AttributeError"               \* line 192
    ELSE IF Len(split(Val(page.h1), " for ")) < 2 THEN "IndexError" \* line 193
    ELSE ""

\* lines 190-198: the dictionary written to out_path
ParfumFeatures(page, url) ==
    [name        |-> split(Val(page.h1), " for ")[1],
     brand       |-> Val(page.brand),
     gender      |-> split(Val(page.h1), " for ")[2],
     accords     |-> Val(page.accords),
     ideal_times |-> IdealTimes(Val(page.rows)),
     notes       |-> NotesFinal(NotesNumbers(Val(page.pyramid)), TotalNotes(page.divs)),
     img_url     |-> ImgUrl(url)]

\* parser_html(html_path, out_path, url): html is None when html_path does
\* not exist.  The result is the exception raised ("" if none) and the file
\* written at out_path (None if none).
parser_html(html, url) ==
    IF IsNone(html) THEN [exc |-> "", json |-> None]              \* lines 93-95
    ELSE IF ParserError(Val(html)) # "" THEN [exc |-> ParserError(Val(html)), json |-> None]
    ELSE [exc |-> "", json |-> Some(ParfumFeatures(Val(html), url))]

(***************************************************************************)
(* build_catalog.py: gather_perfumes and build_items                       *)
(***************************************************************************)
\* the characters of directory names in code point order, as sorted()
\* compares them
Ascii == " -.0123456789ABCDEFGHIJKLMNOPQRSTUVWXYZ_abcdefghijklmnopqrstuvwxyz"

Ord(c) == find(Ascii, c)

\* a < b for two strings
RECURSIVE StrLess(_, _)
StrLess(a, b) ==
    IF Len(b) = 0 THEN FALSE
    ELSE IF Len(a) = 0 THEN TRUE
    ELSE IF Char(a, 1) # Char(b, 1) THEN Ord(Char(a, 1)) < Ord(Char(b, 1))
    ELSE StrLess(SubSeq(a, 2, Len(a)), SubSeq(b, 2, Len(b)))

\* a <= b for two <<brand, entry>> pairs: by brand, then by entry
PairLeq(a, b) ==
    \/ StrLess(a[1], b[1])
    \/ a[1] = b[1] /\ (a[2] = b[2] \/ StrLess(a[2], b[2]))

RECURSIVE SortedPairs(_)
SortedPairs(S) ==
    IF S = {} THEN <<>>
    ELSE LET m == CHOOSE x \in S : \A y \in S : PairLeq(x, y)
         IN  <<m>> \o SortedPairs(S \ {m})

\* gather_perfumes: the item directories that hold a meta.json, sorted by
\* brand directory and then by entry
gather_perfumes(ds) == SortedPairs(DOMAIN ds)

\* meta.get(key) for a parsed meta.json
Field(meta, key) == IF key \in DOMAIN meta THEN Some(meta[key]) ELSE None

\* str(meta.get(key) or "") for a key that holds a string
StrField(meta, key) == IF key \in DOMAIN meta THEN meta[key] ELSE ""

\* meta.get(key) or {}, and ensure_list(meta.get(key)), for a key that holds
\* a dict or a list
SeqField(meta, key) == IF key \in DOMAIN meta THEN meta[key] ELSE <<>>

Buckets == <<"winter", "spring", "summer", "fall", "day", "night">>

\* build_items, lines 105-111
RECURSIVE TimesUpTo(_, _)
TimesUpTo(times_obj, n) ==
    IF n = 0 THEN EmptyDict
    ELSE LET v == pct_to_float(Get(times_obj, Buckets[n]))
         IN  IF ~IsNone(v)
             THEN Put(TimesUpTo(times_obj, n - 1), Buckets[n], Val(v))
             ELSE TimesUpTo(times_obj, n - 1)

CatalogTimes(meta) == TimesUpTo(SeqField(meta, "ideal_times"), Len(Buckets))

\* the --base-url argument of build_catalog.py
public_base_url == "https://img.example.com"

\* build_items, lines 89-125: the item of one meta.json (pid.split(".")[-2]
\* raises IndexError for an img_url without a dot)
ItemRaises(meta) == Len(split(StrField(meta, "img_url"), ".")) < 2

Item(pair, meta) ==
    LET pid       == StrField(meta, "img_url")
        parts     == split(pid, ".")
        notes_obj == SeqField(meta, "notes")
        rel_dir   == "/perfumes/" \o pair[1] \o "/" \o pair[2]
    IN  [id         |-> parts[Len(parts) - 1],
         name       |-> StrField(meta, "name"),
         brand      |-> StrField(meta, "brand"),
         brand_slug |-> to_slug(StrField(meta, "brand")),
         gender     |-> IF StrField(meta, "gender") = "" THEN None
                        ELSE Some(StrField(meta, "gender")),
         accords    |-> Take(SeqField(meta, "accords"), 10),
         notes      |-> [top  |-> SeqField(notes_obj, "top_notes"),
                         mid  |-> SeqField(notes_obj, "middle_notes"),
                         base |-> SeqField(notes_obj, "base_notes")],
         times      |-> CatalogTimes(meta),
         image_url  |-> public_base_url \o rel_dir \o "/image.jpg",
         meta_url   |-> public_base_url \o rel_dir \o "/meta.json"]

\* build_items: a meta.json that does not parse (meta None) is skipped; an
\* exception in the body of the loop ends the function
RECURSIVE build_items(_, _)
build_items(pairs, ds) ==
    IF Len(pairs) = 0 THEN [exc |-> "", items |-> <<>>]
    ELSE LET before == build_items(DropLast(pairs, 1), ds)
             pair   == Last(pairs)
             meta   == ds[pair].meta
         IN  IF before.exc # "" THEN before
             ELSE IF IsNone(meta) THEN before
             ELSE IF ItemRaises(Val(meta)) THEN [exc |-> "IndexError", items |-> <<>>]
             ELSE [exc |-> "", items |-> Append(before.items, Item(pair, Val(meta)))]

(***************************************************************************)
(* build_catalog.py: build_facets                                          *)
(*                                                                         *)
(* A facet is a dict from a key to the list of the ids appended under it.  *)
(***************************************************************************)
\* the keys under which build_facets files one item in a facet, in the
\* order of its appends: lines 143-146, 148-154, 156-158, 160-162
ItemKeys(it, facet) ==
    CASE facet = "accords" -> [i \in 1..Len(it.accords) |-> lower(strip(it.accords[i]))]
      [] facet = "notes"   -> LET ns == it.notes.top \o it.notes.mid \o it.notes.base
                              IN  [i \in 1..Len(ns) |-> strip(ns[i])]
      [] facet = "brands"  -> <<strip(it.brand)>>
      [] facet = "gender"  -> <<strip(OrEmpty(it.gender))>>

\* "if not k: continue", then setdefault(k, []).append(pid): the appends of
\* one item, as <<key, pid>> pairs
RECURSIVE Keyed(_, _)
Keyed(ks, pid) ==
    IF Len(ks) = 0 THEN <<>>
    ELSE (IF ks[1] # "" THEN <<<<ks[1], pid>>>> ELSE <<>>) \o Keyed(Tail(ks), pid)

\* the appends of the loop of lines 140-162 for one facet
RECURSIVE FacetAppends(_, _)
FacetAppends(items, facet) ==
    IF Len(items) = 0 THEN <<>>
    ELSE Keyed(ItemKeys(items[1], facet), items[1].id) \o FacetAppends(Tail(items), facet)

\* the ids appended under key k, in the order of the appends
RECURSIVE IdsOf(_, _)
IdsOf(appends, k) ==
    IF Len(appends) = 0 THEN <<>>
    ELSE (IF appends[1][1] = k THEN <<appends[1][2]>> ELSE <<>>) \o IdsOf(Tail(appends), k)

\* the dict that a sequence of setdefault(k, []).append(pid) builds
Inverted(appends) ==
    [k \in {appends[i][1] : i \in 1..Len(appends)} |-> IdsOf(appends, k)]

\* line 174, and the label f">={th}" of line 186
thresholds == <<50, 70, 80, 90>>

ThresholdLabel(th) == ">=" \o ToString(th)

\* v > th in place of v >= th
MoreThan(v, th) == v > th * Pow10(Decimals)

\* v >= th for a score v held in ten-thousandths
AtLeast(v, th) == v >= th * Pow10(Decimals)

\* lines 176-186: the ids appended to f_times_thresh[bucket][">=th"]
RECURSIVE ThreshIds(_, _, _)
ThreshIds(items, bucket, th) ==
    IF Len(items) = 0 THEN <<>>
    ELSE (IF bucket \in DOMAIN items[1].times /\ AtLeast(items[1].times[bucket], th)
          THEN <<items[1].id>> ELSE <<>>) \o ThreshIds(Tail(items), bucket, th)

\* lines 175-186: f_times_thresh, a dict for each of the six buckets, with
\* a label as key once an id was appended under it
f_times_thresh(items) ==
    [bucket \in {Buckets[n] : n \in 1..Len(Buckets)} |->
        LET hit == {n \in 1..Len(thresholds) : ThreshIds(items, bucket, thresholds[n]) # <<>>}
        IN  [label \in {ThresholdLabel(thresholds[n]) : n \in hit} |->
                ThreshIds(items, bucket,
                          thresholds[CHOOSE n \in hit : ThresholdLabel(thresholds[n]) = label])]]

\* build_facets, lines 129-194 (the dict f_times of lines 163-171 is built
\* and not returned)
build_facets(items) ==
    [notes   |-> Inverted(FacetAppends(items, "notes")),
     accords |-> Inverted(FacetAppends(items, "accords")),
     brands  |-> Inverted(FacetAppends(items, "brands")),
     gender  |-> Inverted(FacetAppends(items, "gender")),
     times   |-> f_times_thresh(items)]

(***************************************************************************)
(* upload_data.py: normalize_record, gen_doc_id and the loop of main       *)
(***************************************************************************)
\* [str(a).strip() for a in xs if str(a).strip()]
RECURSIVE Stripped(_)
Stripped(xs) ==
    IF Len(xs) = 0 THEN <<>>
    ELSE (IF strip(xs[1]) # "" THEN <<strip(xs[1])>> ELSE <<>>) \o Stripped(Tail(xs))

\* normalize_record, lines 60-66
RECURSIVE UploadTimesUpTo(_, _)
UploadTimesUpTo(times, n) ==
    IF n = 0 THEN EmptyDict
    ELSE LET v == pct_to_float_upload(Get(times, Buckets[n]))
         IN  IF ~IsNone(v)
             THEN Put(UploadTimesUpTo(times, n - 1), Buckets[n], Val(v))
             ELSE UploadTimesUpTo(times, n - 1)

normalize_record(meta) ==
    LET notes == SeqField(meta, "notes")
        id    == strip(StrField(meta, "id"))
        gen   == strip(StrField(meta, "gender"))
    IN  [id         |-> IF id = "" THEN None ELSE Some(id),
         name       |-> strip(StrField(meta, "name")),
         brand      |-> strip(StrField(meta, "brand")),
         gender     |-> IF gen = "" THEN None ELSE Some(gen),
         accords    |-> Stripped(SeqField(meta, "accords")),
         notes_top  |-> Stripped(SeqField(notes, "top_notes")),
         notes_mid  |-> Stripped(SeqField(notes, "middle_notes")),
         notes_base |-> Stripped(SeqField(notes, "base_notes")),
         times      |-> UploadTimesUpTo(SeqField(meta, "ideal_times"), Len(Buckets)),
         image_url  |-> Field(meta, "img_url")]

\* slugify(text) of python-slugify with its default arguments, for ASCII
\* text without quotes, "&" entities or digit-grouping commas: lowercase,
\* every run of characters other than letters, digits and "-" becomes "-",
\* runs of "-" become one, and "-" is stripped from both ends
AlphaNum == "abcdefghijklmnopqrstuvwxyz0123456789"

RECURSIVE DisallowedToHyphen(_)
DisallowedToHyphen(s) ==
    IF Len(s) = 0 THEN ""
    ELSE (IF find(AlphaNum, Char(s, 1)) > 0 THEN Char(s, 1) ELSE "-")
             \o DisallowedToHyphen(SubSeq(s, 2, Len(s)))

RECURSIVE StripHyphens(_)
StripHyphens(s) ==
    IF Len(s) > 0 /\ Char(s, 1) = "-" THEN StripHyphens(SubSeq(s, 2, Len(s)))
    ELSE IF Len(s) > 0 /\ Char(s, Len(s)) = "-" THEN StripHyphens(SubSeq(s, 1, Len(s) - 1))
    ELSE s

slugify(text) == StripHyphens(SqueezeHyphens(DisallowedToHyphen(lower(text))))

\* lines 72-75
gen_doc_id(name, brand) ==
    LET base == lower(strip(brand \o "::" \o name))
        slug == Take(slugify(base), 140)
    IN  IF slug = "" THEN "perfume" ELSE slug

\* main, lines 128-151: the document id and the data of one item directory
DocId(meta) ==
    LET rec == normalize_record(meta)
    IN  IF ~IsNone(rec.id) THEN Val(rec.id) ELSE gen_doc_id(rec.name, rec.brand)

DocData(pair, entry) ==
    LET rec == normalize_record(entry.meta[1])
    IN  [name           |-> rec.name,
         brand          |-> rec.brand,
         gender         |-> rec.gender,
         accords        |-> rec.accords,
         notes_top      |-> rec.notes_top,
         notes_mid      |-> rec.notes_mid,
         notes_base     |-> rec.notes_base,
         times          |-> rec.times,
         imagePath      |-> IF entry.image
                            THEN Some("perfumes/" \o pair[1] \o "/" \o pair[2] \o "/image.jpg")
                            ELSE None,
         sourceImageUrl |-> rec.image_url]

\* document(doc_id).set(data, merge=True): the fields of data replace those
\* of the stored document, the keys of a non-empty map field one by one
SetMerge(store, doc_id, data) ==
    IF doc_id \in DOMAIN store /\ DOMAIN data.times # {}
    THEN LET old == store[doc_id].times
         IN  Put(store, doc_id,
                 [data EXCEPT !.times =
                     [b \in DOMAIN old \cup DOMAIN data.times |->
                         IF b \in DOMAIN data.times THEN data.times[b] ELSE old[b]]])
    ELSE Put(store, doc_id, data)

\* main, lines 127-155, over the item directories in the order walk_perfumes
\* yields them
RECURSIVE UploadAll(_, _)
UploadAll(order, ds) ==
    IF Len(order) = 0 THEN EmptyDict
    ELSE LET pair == Last(order)
         IN  SetMerge(UploadAll(DropLast(order, 1), ds),
                      DocId(ds[pair].meta[1]), DocData(pair, ds[pair]))

\* the orders in which iterdir() may list a set of directories
Orders(S) == {o \in [1..Cardinality(S) -> S] : \A i, j \in 1..Cardinality(S) : o[i] = o[j] => i = j}

(***************************************************************************)
(* gpt.py: the loop of __main__                                            *)
(***************************************************************************)
\* line 247
perfume_name_id(url) == replace(Last(split(url, "/")), ".html", "")

\* what follows the page at position n
After(n) == IF n + 1 > Len(urls) THEN "done" ELSE "page"

\* lines 276-277: final_output_dir of the page at position n, as the pair
\* <<brand_slug, perfume_name_id>>
final_output_dir(n) ==
    <<to_slug(Val(parser_html(Some(site[n]), urls[n]).json).brand),
      perfume_name_id(urls[n])>>

\* lines 244-283: one page from its URL to meta.json in its item directory.
\* save_html raises when the browser cannot load the page; parser_html
\* raises on markup it does not expect; a missing JSON file or an empty
\* brand removes data/temp and exits.
HandlePage ==
    /\ pc = "page"
    /\ LET url == urls[pos]
           id  == perfume_name_id(url)
       IN  \E loaded \in BOOLEAN :
             IF ~loaded
             THEN /\ pc' = "raised"
                  /\ exc' = "WebDriverException"
                  /\ temp' = temp \cup {id}
                  /\ UNCHANGED dataset
             ELSE LET parsed == parser_html(Some(site[pos]), url)
                  IN  IF parsed.exc # ""
                      THEN /\ pc' = "raised"
                           /\ exc' = parsed.exc
                           /\ temp' = temp \cup {id}
                           /\ UNCHANGED dataset
                      ELSE IF IsNone(parsed.json) \/ Val(parsed.json).brand = ""
                      THEN /\ pc' = "exited"
                           /\ temp' = {}
                           /\ UNCHANGED <<dataset, exc>>
                      ELSE LET dir == final_output_dir(pos)
                           IN  /\ pc' = "moved"
                               /\ temp' = temp \cup {id}
                               /\ dataset' = Put(dataset, dir,
                                     [meta  |-> parsed.json,
                                      image |-> dir \in DOMAIN dataset /\ dataset[dir].image])
                               /\ UNCHANGED exc
    /\ UNCHANGED <<urls, site, pos, catalog, docs, pctVars, facets, slugVars>>

\* lines 285-296: download_image writes image.jpg, or raises when the image
\* server does not answer with the image; then the page's temporary
\* directory is removed and the loop goes on
DownloadImage ==
    /\ pc = "moved"
    /\ \E served \in BOOLEAN :
          IF served
          THEN /\ dataset' = [dataset EXCEPT ![final_output_dir(pos)].image = TRUE]
               /\ temp' = temp \ {perfume_name_id(urls[pos])}
               /\ pos' = pos + 1
               /\ pc' = After(pos)
               /\ UNCHANGED exc
          ELSE /\ pc' = "raised"
               /\ exc' = "HTTPError"
               /\ UNCHANGED <<dataset, temp, pos>>
    /\ UNCHANGED <<urls, site, catalog, docs, pctVars, facets, slugVars>>

Ended == pc \in {"done", "raised", "exited"}

\* build_catalog.py, lines 196-215, run on the dataset gpt.py left: the
\* catalog, then the facets unless build_items raised
BuildCatalog ==
    /\ Ended
    /\ catalog = Unset
    /\ LET built == build_items(gather_perfumes(dataset), dataset)
       IN  /\ catalog' = Some(built)
           /\ facets' = IF built.exc = "" THEN Some(build_facets(built.items)) ELSE Unset
    /\ UNCHANGED <<scrapeVars, docs, pctVars, slugVars>>

\* upload_data.py, main, run on the dataset gpt.py left
Upload ==
    /\ Ended
    /\ docs = Unset
    /\ \E order \in Orders(DOMAIN dataset) : docs' = Some(UploadAll(order, dataset))
    /\ UNCHANGED <<scrapeVars, catalog, pctVars, facets, slugVars>>

Next == HandlePage \/ DownloadImage \/ BuildCatalog \/ Upload

(***************************************************************************)
(* Inputs                                                                  *)
(***************************************************************************)
\* all concatenations of at most n strings of P
RECURSIVE Concats(_, _)
Concats(P, n) ==
    IF n = 0 THEN {""}
    ELSE LET shorter == Concats(P, n - 1)
         IN  shorter \cup {s \o p : s \in shorter, p \in P}

\* all sequences of at most n elements of S
SeqsUpTo(S, n) == UNION {[1..m -> S] : m \in 0..n}

\* a page with every block parser_html looks for: three tiers of one linked
\* note each, two rating rows, one accord
GoodPage ==
    [div_base |-> TRUE,
     h1       |-> Some("Delina for women"),
     brand    |-> Some("Parfums de Marly"),
     accords  |-> Some(<<"woody">>),
     rows     |-> Some(<<[label |-> Some("winter"), style |-> Some("width: 80%;")],
                         [label |-> Some("night"), style |-> Some("width: 60%;")]>>),
     pyramid  |-> Some(<<"h4", "b", "div", "div", "img", "div", "a", "span",
                         "h4", "b", "div", "div", "img", "div", "a", "span",
                         "h4", "b", "div", "div", "img", "div", "a", "span">>),
     divs     |-> <<"", "Bergamot", "", "Rose", "", "Musk">>]

GoodUrl == "https://www.fragrantica.com/perfume/Parfums-de-Marly/Delina-43871.html"

\* the state before gpt.py handles its first page
ScrapeInit ==
    /\ pos = 1
    /\ pc = After(0)
    /\ exc = ""
    /\ temp = {}
    /\ dataset = EmptyDict
    /\ catalog = Unset
    /\ docs = Unset
    /\ pctIn = None
    /\ pctOut = Unset
    /\ facets = Unset
    /\ slugIn = None
    /\ slugOut = <<>>

(***************************************************************************)
(* Spec: a run of gpt.py over a list of pages, then the catalog builder    *)
(* and the uploader                                                        *)
(***************************************************************************)
NPages == 3

\* gpt.py lines 226-239
urls_nicho ==
    <<"https://www.fragrantica.com/perfume/Le-Labo/The-Matcha-26-69731.html",
      "https://www.fragrantica.com/perfume/Le-Labo/Santal-33-12201.html",
      "https://www.fragrantica.com/perfume/Louis-Vuitton/Rose-des-Vents-40495.html",
      "https://www.fragrantica.com/perfume/Louis-Vuitton/L-Immensite-49751.html",
      "https://www.fragrantica.com/perfume/Louis-Vuitton/Pacific-Chill-81423.html",
      "https://www.fragrantica.com/perfume/Louis-Vuitton/Imagination-67370.html",
      "https://www.fragrantica.com/perfume/Louis-Vuitton/Attrape-Reves-51016.html",
      "https://www.fragrantica.com/perfume/Louis-Vuitton/Ombre-Nomade-49755.html",
      "https://www.fragrantica.com/perfume/Parfums-de-Marly/Delina-43871.html",
      "https://www.fragrantica.com/perfume/Tom-Ford/Ombre-Leather-2018-50239.html",
      "https://www.fragrantica.com/perfume/Tom-Ford/Black-Orchid-1018.html",
      "https://www.fragrantica.com/perfume/Tom-Ford/Lost-Cherry-51411.html",
      "https://www.fragrantica.com/perfume/By-Kilian/Black-Phantom-43632.html",
      "https://www.fragrantica.com/perfume/Xerjoff/Erba-Pura-55157.html">>

\* the pages a run may meet: a complete one, a title without " for ", no
\* brand element, an empty brand text, no content container
BatchPages ==
    {GoodPage,
     [GoodPage EXCEPT !.h1 = Some("Santal 33")],
     [GoodPage EXCEPT !.brand = None],
     [GoodPage EXCEPT !.brand = Some("")],
     [GoodPage EXCEPT !.div_base = FALSE]}

Init ==
    /\ urls = Take(urls_nicho, NPages)
    /\ site \in [1..Len(urls) -> BatchPages]
    /\ ScrapeInit

Spec == Init /\ [][Next]_vars

(***************************************************************************)
(* SpecTitle: one page, its title varying                                  *)
(***************************************************************************)
MaxTitlePieces == 4

TitlePieces == {"women", " for ", "for", " "}

\* a name, then at most MaxTitlePieces pieces
Titles == {"Delina" \o rest : rest \in Concats(TitlePieces, MaxTitlePieces)} \cup {"Santal 33"}

TitleInit ==
    /\ urls = <<GoodUrl>>
    /\ \E t \in Titles : site = <<[GoodPage EXCEPT !.h1 = Some(t)]>>
    /\ ScrapeInit

SpecTitle == TitleInit /\ [][Next]_vars

(***************************************************************************)
(* SpecNotes: one page, its note pyramid varying                           *)
(***************************************************************************)
MaxNodes == 5

\* the blocks of a pyramid: a tier header; a note with its link; a note
\* without a link; a linked picture without a name
NodeKinds == {"header", "note", "plain", "blank"}

NodeTags(kind) ==
    CASE kind = "header" -> <<"h4", "b">>
      [] kind = "note"   -> <<"div", "div", "img", "div", "a", "span">>
      [] kind = "plain"  -> <<"div", "div", "img", "div">>
      [] kind = "blank"  -> <<"div", "div", "img", "div", "a", "span">>

NoteNames == <<"Bergamot", "Rose", "Musk", "Vetiver", "Iris", "Amber", "Oud", "Lime">>

NodeDivs(kind, n) ==
    CASE kind = "header" -> <<>>
      [] kind = "note"   -> <<"", NoteNames[n]>>
      [] kind = "plain"  -> <<"", NoteNames[n]>>
      [] kind = "blank"  -> <<"", "">>

RECURSIVE PyramidTags(_)
PyramidTags(nodes) ==
    IF Len(nodes) = 0 THEN <<>>
    ELSE PyramidTags(DropLast(nodes, 1)) \o NodeTags(Last(nodes))

RECURSIVE PyramidDivs(_)
PyramidDivs(nodes) ==
    IF Len(nodes) = 0 THEN <<>>
    ELSE PyramidDivs(DropLast(nodes, 1)) \o NodeDivs(Last(nodes), Len(nodes))

NotesInit ==
    /\ urls = <<GoodUrl>>
    /\ \E nodes \in SeqsUpTo(NodeKinds, MaxNodes) :
          site = <<[GoodPage EXCEPT !.pyramid = Some(PyramidTags(nodes)),
                                    !.divs = PyramidDivs(nodes)]>>
    /\ ScrapeInit

SpecNotes == NotesInit /\ [][Next]_vars

(***************************************************************************)
(* SpecTimes: one page, its rating rows varying                            *)
(***************************************************************************)
MaxRows == 2

RowLabels == {"Winter", "winter", "Night", "night", "Summer"}

\* a bar's style attribute: None without a bar element
RowStyles ==
    {None, Some(""), Some("width: 80%;"), Some("width: 60%;"), Some("width:150%"),
     Some("width: -5%;"), Some("height: 4px;"), Some("width: auto;")}

TimesInit ==
    /\ urls = <<GoodUrl>>
    /\ \E rows \in SeqsUpTo([label : {Some(l) : l \in RowLabels}, style : RowStyles], MaxRows) :
          site = <<[GoodPage EXCEPT !.rows = Some(rows)]>>
    /\ ScrapeInit

SpecTimes == TimesInit /\ [][Next]_vars

(***************************************************************************)
(* SpecImage: one page, its URL varying                                    *)
(***************************************************************************)
MaxUrlPieces == 4

UrlPieces == {"Santal", "-", "33", "12201"}

\* a perfume page of one brand: a name, at most MaxUrlPieces pieces, ".html"
Urls == {"https://www.fragrantica.com/perfume/Le-Labo/Santal" \o rest \o ".html" :
            rest \in Concats(UrlPieces, MaxUrlPieces)}

ImageInit ==
    /\ urls \in {<<u>> : u \in Urls}
    /\ site = <<GoodPage>>
    /\ ScrapeInit

SpecImage == ImageInit /\ [][Next]_vars

(***************************************************************************)
(* SpecPct: pct_to_float applied to one input                              *)
(***************************************************************************)
MaxPctPieces == 3

PctPieces == {"7", "3", ".", "5", "%", " ", "-", "width:", ";", "garbage"}

PctInputs ==
    {None} \cup {Some(s) : s \in Concats(PctPieces, MaxPctPieces)
                               \cup {"73%", "width: 42.5%;", "42.5", "150%"}}

PctInit ==
    /\ pctIn \in PctInputs
    /\ pctOut = Unset
    /\ urls = <<>> /\ site = <<>> /\ pos = 1 /\ pc = "done" /\ exc = ""
    /\ temp = {} /\ dataset = EmptyDict
    /\ catalog = Unset /\ docs = Unset /\ facets = Unset
    /\ slugIn = None /\ slugOut = <<>>

CatalogPct ==
    /\ pctOut = Unset
    /\ pctOut' = <<"catalog", pct_to_float(pctIn)>>
    /\ UNCHANGED <<pctIn, scrapeVars, outVars, facets, slugVars>>

UploadPct ==
    /\ pctOut = Unset
    /\ pctOut' = <<"upload", pct_to_float_upload(pctIn)>>
    /\ UNCHANGED <<pctIn, scrapeVars, outVars, facets, slugVars>>

PctNext == CatalogPct \/ UploadPct

SpecPct == PctInit /\ [][PctNext]_vars

(***************************************************************************)
(* SpecFacets: a run over pages whose ratings vary, then the catalog       *)
(* builder                                                                 *)
(***************************************************************************)
MaxItems == 2

\* pages to scrape: the first two are two spellings of the address of one
\* perfume
FacetUrls ==
    <<"https://www.fragrantica.com/perfume/Tom-Ford/Ombre-Leather-2018-50239.html",
      "https://www.fragrantica.com/perfume/Tom-Ford/Ombre-Leather-50239.html",
      "https://www.fragrantica.com/perfume/Tom-Ford/Black-Orchid-1018.html",
      "https://www.fragrantica.com/perfume/Tom-Ford/Lost-Cherry-51411.html">>

WinterStyles == {"width: 49.9%;", "width: 50%;", "width: 85%;", "width: 90%;"}

\* no rating row, a winter row, or a winter row and a night row
FacetRows ==
    {<<>>}
    \cup {<<[label |-> Some("winter"), style |-> Some(w)]>> : w \in WinterStyles}
    \cup {<<[label |-> Some("winter"), style |-> Some(w)],
            [label |-> Some("night"), style |-> Some("width: 70%;")]>> : w \in WinterStyles}

FacetPages ==
    {[GoodPage EXCEPT !.h1 = Some("Ombre Leather for women and men"),
                      !.brand = Some("Tom Ford"),
                      !.rows = Some(rows)] : rows \in FacetRows}

FacetsInit ==
    /\ urls = Take(FacetUrls, MaxItems)
    /\ site \in [1..Len(urls) -> FacetPages]
    /\ ScrapeInit

SpecFacets == FacetsInit /\ [][Next]_vars

(***************************************************************************)
(* SpecSlug: to_slug applied to one input, then to its own result          *)
(***************************************************************************)
MaxSlugPieces == 4

SlugPieces == {"a", "B", "3", " ", "-", "&"}

SlugInputs ==
    {None} \cup {Some(s) : s \in Concats(SlugPieces, MaxSlugPieces)
                               \cup {"Parfums de Marly", "Tom Ford", "By Kilian",
                                     "Dolce & Gabbana", "Tom Ford -", "- Le Labo",
                                     "L'Artisan  Parfumeur", "\tXerjoff\n"}}

SlugInit ==
    /\ slugIn \in SlugInputs
    /\ slugOut = <<>>
    /\ urls = <<>> /\ site = <<>> /\ pos = 1 /\ pc = "done" /\ exc = ""
    /\ temp = {} /\ dataset = EmptyDict
    /\ catalog = Unset /\ docs = Unset /\ facets = Unset
    /\ pctIn = None /\ pctOut = Unset

\* to_slug(s)
SlugOnce ==
    /\ slugOut = <<>>
    /\ slugOut' = <<to_slug(OrEmpty(slugIn))>>
    /\ UNCHANGED <<slugIn, scrapeVars, outVars, pctVars, facets>>

\* to_slug applied to the slug it returned
SlugAgain ==
    /\ Len(slugOut) = 1
    /\ slugOut' = Append(slugOut, to_slug(slugOut[1]))
    /\ UNCHANGED <<slugIn, scrapeVars, outVars, pctVars, facets>>

SlugNext == SlugOnce \/ SlugAgain

SpecSlug == SlugInit /\ [][SlugNext]_vars

(***************************************************************************)
(* Properties                                                              *)
(***************************************************************************)
\* the page whose record lies in item directory d
PageAt(d) == CHOOSE n \in 1..Len(urls) : perfume_name_id(urls[n]) = d[2]

\* the record in item directory d
MetaAt(d) == Val(dataset[d].meta)

\* gpt.py fetched the first page and parser_html has run on it
FirstParsed == pc # "page" /\ exc # "WebDriverException"

SpansIn(elements, from, to) == Cardinality({i \in from..to : elements[i] = "span"})

\* C1: with three or more h4 headers in the pyramid, the tiers of the
\* record have as many notes as there are leaf nodes between the first and
\* second header, between the second and third, and after the third, and
\* top ++ middle ++ base is the list of note tokens.
C1_TiersPartitionTokens ==
    \A d \in DOMAIN dataset :
        LET page     == site[PageAt(d)]
            elements == Val(page.pyramid)
            h4       == Sorted(Indices(elements, "h4"))
            notes    == MetaAt(d).notes
        IN  Len(h4) >= 3 =>
              /\ Len(notes.top_notes) = SpansIn(elements, h4[1], h4[2] - 1)
              /\ Len(notes.middle_notes) = SpansIn(elements, h4[2], h4[3] - 1)
              /\ Len(notes.base_notes) = SpansIn(elements, h4[3], Len(elements))
              /\ notes.top_notes \o notes.middle_notes \o notes.base_notes
                     = TotalNotes(page.divs)

\* C2: with fewer than three h4 headers in the pyramid, the top tier of the
\* record is the list of note tokens and the other two tiers are empty.
C2_FallbackAllTop ==
    \A d \in DOMAIN dataset :
        LET page  == site[PageAt(d)]
            notes == MetaAt(d).notes
        IN  Cardinality(Indices(Val(page.pyramid), "h4")) < 3 =>
              /\ notes.top_notes = TotalNotes(page.divs)
              /\ notes.middle_notes = <<>>
              /\ notes.base_notes = <<>>

\* C3: once the page is parsed, the extraction has not failed and the
\* record's name is the title up to the first " for " and its gender the title
\* after it; for a title without " for " the name is the title and the record
\* has no gender.
C3_TitleSplit ==
    FirstParsed =>
        LET title == Val(site[1].h1)
            i     == find(title, " for ")
        IN  /\ exc \notin {"IndexError", "AttributeError"}
            /\ DOMAIN dataset # {}
            /\ \A d \in DOMAIN dataset :
                  IF i = 0
                  THEN /\ MetaAt(d).name = title
                       /\ "gender" \notin DOMAIN MetaAt(d)
                  ELSE /\ MetaAt(d).name = SubSeq(title, 1, i - 1)
                       /\ MetaAt(d).gender = SubSeq(title, i + 5, Len(title))

\* C4: every key of a record's ideal_times holds a parsed width: no key
\* holds a null.
C4_NoNullOccasion ==
    \A d \in DOMAIN dataset :
        \A label \in DOMAIN MetaAt(d).ideal_times :
            ~IsNone(MetaAt(d).ideal_times[label])

WinterNightRows ==
    <<[label |-> Some("Winter"), style |-> Some("width: 80%;")],
      [label |-> Some("Night"), style |-> Some("width: 60%;")]>>

WinterNightTimes == [b \in {"winter", "night"} |-> IF b = "winter" THEN 800000 ELSE 600000]

\* C5: a page with the rows Winter (width 80%) and Night (width 60%) gives
\* a catalog item, and an uploaded document, whose times are exactly
\* winter = 80.0 and night = 60.0.
C5_WinterNightEndToEnd ==
    (pc = "done" /\ site[1].rows = Some(WinterNightRows)) =>
        /\ catalog # Unset =>
              \A i \in 1..Len(Val(catalog).items) :
                  Val(catalog).items[i].times = WinterNightTimes
        /\ docs # Unset =>
              \A id \in DOMAIN Val(docs) : Val(docs)[id].times = WinterNightTimes

IsNumericId(id) == Len(id) > 0 /\ AllDigits(id)

\* the image id inside a record's img_url: what stands between
\* "...375x500." and ".jpg"
ImageIdOf(img_url) == DropLast(SubSeq(img_url, Len(ImgUrl("")) - 3, Len(img_url)), 4)

\* C6: the image id of every record written, and the id of every catalog
\* item, is non-empty and numeric (a page whose URL has no numeric segment
\* leaves no record).
C6_NumericImageId ==
    /\ \A d \in DOMAIN dataset : IsNumericId(ImageIdOf(MetaAt(d).img_url))
    /\ catalog # Unset =>
          \A i \in 1..Len(Val(catalog).items) : IsNumericId(Val(catalog).items[i].id)

\* the run of gpt.py met one of the failures of extraction: markup that
\* parser_html does not expect, no JSON file, no brand
ExtractionFailed == pc = "exited" \/ exc \in {"AttributeError", "IndexError"}

\* C7: when the run of gpt.py has ended, having met no failure or a failure
\* of extraction, every page of the list has been attempted.
C7_EveryPageAttempted ==
    (pc = "done" \/ ExtractionFailed) => \A n \in 1..Len(urls) : n <= pos

\* C8: whenever gpt.py is not in the middle of a page, every item directory
\* with a meta.json has its image.jpg.
C8_NoPartialItem ==
    pc # "moved" => \A d \in DOMAIN dataset : dataset[d].image

\* what C9 says of one input: the width value of a CSS declaration, else
\* the number the string spells, "%" aside
ClaimedPct(x) ==
    IF IsNone(x) THEN None
    ELSE IF ~IsNone(ExtractWidth(Val(x)))
    THEN float4(replace(Val(ExtractWidth(Val(x))), "%", ""))
    ELSE float4(replace(strip(Val(x)), "%", ""))

\* C9 as stated: pct_to_float returns the number of a numeric string, with
\* or without "%", the width value of a CSS declaration, and None otherwise.
C9_PctShapes ==
    pctOut # Unset => pctOut[2] = ClaimedPct(pctIn)

\* a string of digits with at most one point in it, a digit before the point
\* and at most Decimals digits after it
IsNumeral(s) ==
    LET p == find(s, ".")
    IN  /\ Len(s) > 0
        /\ \A i \in 1..Len(s) : i = p \/ IsDigit(Char(s, i))
        /\ p # 1
        /\ p > 0 => Len(s) - p <= Decimals

NumeralVal(s) ==
    LET p == find(s, ".")
    IN  IF p = 0 THEN DigitsVal(s) * Pow10(Decimals)
        ELSE DigitsVal(SubSeq(s, 1, p - 1)) * Pow10(Decimals)
                 + DigitsVal(SubSeq(s, p + 1, Len(s))) * Pow10(Decimals - (Len(s) - p))

\* C9 amended: pct_to_float returns None for None, the number for a numeric
\* string, the same number for that string followed by "%", and None for
\* every string that holds ":" or ";", a CSS declaration among them, and for
\* "garbage".
C9_PctShapesAmended ==
    pctOut # Unset =>
        IF IsNone(pctIn) THEN IsNone(pctOut[2])
        ELSE LET s == Val(pctIn)
             IN  /\ IsNumeral(s) => pctOut[2] = Some(NumeralVal(s))
                 /\ (Len(s) > 1 /\ Char(s, Len(s)) = "%" /\ IsNumeral(DropLast(s, 1)))
                        => pctOut[2] = Some(NumeralVal(DropLast(s, 1)))
                 /\ (find(s, ":") > 0 \/ find(s, ";") > 0) => IsNone(pctOut[2])
                 /\ s = "garbage" => IsNone(pctOut[2])

\* C9's case: both modules' pct_to_float given a CSS declaration
C9_CssDeclarationSeen ==
    /\ pctIn = Some("width: 42.5%;")
    /\ pctOut # Unset
    /\ IsNone(pctOut[2])

InRange(times) == \A b \in DOMAIN times : 0 <= times[b] /\ times[b] <= 100 * Pow10(Decimals)

\* C10: every score of a catalog item and of an uploaded document lies
\* between 0 and 100.
C10_ScoresInRange ==
    /\ catalog # Unset =>
          \A i \in 1..Len(Val(catalog).items) : InRange(Val(catalog).items[i].times)
    /\ docs # Unset =>
          \A id \in DOMAIN Val(docs) : InRange(Val(docs)[id].times)

\* s matches ^[a-z0-9]+(-[a-z0-9]+)*$
MatchesSlugShape(s) ==
    /\ Len(s) > 0
    /\ \A i \in 1..Len(s) : find(SlugKept, Char(s, i)) > 0
    /\ Char(s, 1) # "-"
    /\ Char(s, Len(s)) # "-"
    /\ \A i \in 1..(Len(s) - 1) : ~(Char(s, i) = "-" /\ Char(s, i + 1) = "-")

\* C11: whatever its input, to_slug returns the empty string or lowercase
\* alphanumeric runs joined by single hyphens, without a leading, a trailing
\* or a repeated hyphen.
C11_SlugShape ==
    Len(slugOut) >= 1 => (slugOut[1] = "" \/ MatchesSlugShape(slugOut[1]))

\* C12: to_slug is idempotent: applied to a slug it returned, it returns
\* that slug.
C12_SlugIdempotent ==
    Len(slugOut) = 2 => slugOut[2] = slugOut[1]

\* to_slug was applied twice to an input that it had to rewrite
C12_RewrittenSlugReslugged ==
    /\ Len(slugOut) = 2
    /\ ~IsNone(slugIn)
    /\ slugOut[1] # Val(slugIn)
    /\ slugOut[1] # ""

\* the numeric id of the page behind an item directory
PageIdOf(d) == ImageIdOf(MetaAt(d).img_url)

\* C13: once the uploader has run, two records scraped from pages with
\* different numeric ids were written under different document ids, and
\* each of them is a document of the collection.
C13_DistinctPagesDistinctDocs ==
    docs # Unset =>
        \A d1, d2 \in DOMAIN dataset :
            PageIdOf(d1) # PageIdOf(d2) =>
                /\ DocId(MetaAt(d1)) # DocId(MetaAt(d2))
                /\ {DocId(MetaAt(d1)), DocId(MetaAt(d2))} \subseteq DOMAIN Val(docs)

\* the items of the catalog and the times facet built from them
CatalogItems == Val(catalog).items

TimesFacet == Val(facets).times

BucketSet == {Buckets[n] : n \in 1..Len(Buckets)}

ThresholdSet == {thresholds[n] : n \in 1..Len(thresholds)}

\* item i has a score for bucket b, and it is at least t
ScoreAtLeast(i, b, t) ==
    b \in DOMAIN CatalogItems[i].times /\ CatalogItems[i].times[b] >= t * 10000

\* the list filed under bucket b and threshold t, empty without the key
FacetList(b, t) ==
    IF ThresholdLabel(t) \in DOMAIN TimesFacet[b] THEN TimesFacet[b][ThresholdLabel(t)] ELSE <<>>

Elems(xs) == {xs[n] : n \in 1..Len(xs)}

====
